---- MODULE Spec2Model ----
(***************************************************************************)
(* Rollcall relay (server.py): the in-memory session store `checklists`,   *)
(* the /rollcall and /logout handlers run by concurrent request threads,   *)
(* the checklist renderer and the single-message reconciliation against    *)
(* the Telegram gateway.                                                   *)
(*                                                                         *)
(* Strings are sequences of one-character strings, so that strip(),        *)
(* lower(), len() and ljust() are computed as Python computes them.        *)
(* A Python set is kept as the sequence of its elements in iteration order *)
(* (no element twice); the place a new element takes in that order depends *)
(* on its hash and is a nondeterministic choice (see SetAdd).               *)
(***************************************************************************)
EXTENDS Integers, Sequences, FiniteSets, TLC

(***************************************************************************)
(* Bounds of the model.                                                    *)
(***************************************************************************)
\* Requests handled one after another (SpecSeq).
MaxReq == 3
\* Requests handled by concurrent threads (Spec).
MaxRace == 2
\* Requests for two live keys, one thread a key (SpecKeys).
MaxKeysReq == 3

(***************************************************************************)
(* Program constants.                                                      *)
(***************************************************************************)
SESSION_EXPIRE_SECONDS == 60 * 40

DEVICE_ORDER == << >>

\* Python None (also the value a falsy message_id test sees).
None == 0

Workers == {1, 2}

(***************************************************************************)
(* Strings.                                                                *)
(***************************************************************************)
\* Code point of a character, for str comparison.
Ord(c) ==
  CASE c = " " -> 32
    [] c = "A" -> 65
    [] c = "X" -> 88
    [] c = "a" -> 97
    [] c = "b" -> 98
    [] c = "x" -> 120
    [] c = "y" -> 121
    [] OTHER -> 63

LowerChar(c) ==
  CASE c = "A" -> "a"
    [] c = "X" -> "x"
    [] OTHER -> c

\* str.lower
Lower(s) == [i \in 1..Len(s) |-> LowerChar(s[i])]

RECURSIVE LStrip(_)
LStrip(s) == IF s # << >> /\ Head(s) = " " THEN LStrip(Tail(s)) ELSE s

RECURSIVE RStrip(_)
RStrip(s) ==
  IF s # << >> /\ s[Len(s)] = " " THEN RStrip(SubSeq(s, 1, Len(s) - 1)) ELSE s

\* str.strip
Strip(s) == RStrip(LStrip(s))

\* _norm without the lower().
_normNoLower(s) == Strip(s)

\* _norm(s) = (s or "").strip().lower()
_norm(s) == Lower(Strip(s))

\* Python's  a < b  on str: lexicographic by code point.
RECURSIVE StrLess(_, _)
StrLess(a, b) ==
  IF b = << >> THEN FALSE
  ELSE IF a = << >> THEN TRUE
  ELSE IF Ord(Head(a)) # Ord(Head(b)) THEN Ord(Head(a)) < Ord(Head(b))
  ELSE StrLess(Tail(a), Tail(b))

Range(s) == {s[i] : i \in 1..Len(s)}

\* The requests' raw fields, before any trimming.
RawUsernames == { <<"A">>, <<"a", " ">>, <<"b">>, <<" ">> }
RawMachines == { <<"x">>, <<"X", " ">>, <<"y">>, << >> }

LiveKeys == { _norm(u) : u \in {v \in RawUsernames : Strip(v) # << >>} }


(***************************************************************************)
(* Checklist renderer.                                                     *)
(***************************************************************************)
\* Place of x in a list already sorted by key str.lower: after every element
\* whose key is not greater (sorted() is stable).
RECURSIVE InsertByLower(_, _)
InsertByLower(sorted, x) ==
  IF sorted = << >> THEN <<x>>
  ELSE IF StrLess(Lower(x), Lower(Head(sorted))) THEN <<x>> \o sorted
  ELSE <<Head(sorted)>> \o InsertByLower(Tail(sorted), x)

\* sorted(list, key=str.lower)
RECURSIVE SortedByLower(_)
SortedByLower(list) ==
  IF list = << >> THEN << >>
  ELSE InsertByLower(SortedByLower(SubSeq(list, 1, Len(list) - 1)), list[Len(list)])

\* The glyphs, each one character of the text.
CheckMark == "[v]"
EmptyBox == "[ ]"

\* f"{mark} {name}"
Cell(name, machines) ==
  <<IF name \in Range(machines) THEN CheckMark ELSE EmptyBox, " ">> \o name

RECURSIVE MaxLen(_)
MaxLen(cells) ==
  IF cells = << >> THEN 0
  ELSE LET rest == MaxLen(Tail(cells))
       IN IF Len(Head(cells)) > rest THEN Len(Head(cells)) ELSE rest

\* str.ljust(width)
RECURSIVE LJust(_, _)
LJust(s, width) == IF Len(s) >= width THEN s ELSE LJust(s \o <<" ">>, width)

\* "\n".join(lines)
RECURSIVE JoinLines(_)
JoinLines(lines) ==
  IF lines = << >> THEN << >>
  ELSE IF Len(lines) = 1 THEN lines[1]
  ELSE lines[1] \o <<"\n">> \o JoinLines(Tail(lines))

\* _render_checklist_text(title, machines); machines in iteration order.
_render_checklist_text(title, machines) ==
  LET ordered == DEVICE_ORDER
      extras == SortedByLower(SelectSeq(machines, LAMBDA m : m \notin Range(DEVICE_ORDER)))
      display == ordered \o extras
      cells == [i \in 1..Len(display) |-> Cell(display[i], machines)]
      cols == 2
      col_width == IF cells # << >> THEN MaxLen(cells) + 2 ELSE 10
      rows == (Len(cells) + cols - 1) \div cols
      line(r) == LJust(cells[r + 1], col_width)
                   \o (IF r + rows < Len(cells) THEN cells[r + rows + 1] ELSE << >>)
      lines == [i \in 1..rows |-> line(i - 1)]
      grid == IF lines # << >> THEN JoinLines(lines) ELSE <<"(no devices yet)">>
      header == <<"Rollcall - ">> \o title
  IN header \o <<"\n<pre>">> \o grid \o <<"</pre>">>

\* f"... <b>{username}</b> ..." of logout
WarningText(username) == <<"<b>">> \o username \o <<"</b>">>


(***************************************************************************)
(* State.                                                                  *)
(***************************************************************************)
VARIABLES
  checklists,  \* live_key -> reference to a session dict, or None
  heap,        \* the session dicts ever created, by reference
  channel,     \* the Telegram chat: messages by message_id
  clock,       \* the latest value time.time() has returned
  nreq,        \* requests received so far
  pc,          \* where each request thread stands
  loc,         \* each request thread's local variables
  hist,        \* per session dict: what its reconciliations have done so far
  last,        \* the most recently completed request
  lastSeen     \* live_key -> time of the latest completed check-in, or None

vars == <<checklists, heap, channel, clock, nreq, pc, loc, hist, last, lastSeen>>

\* A request thread's locals before it has a request.
IdleLoc ==
  [ op |-> "", username |-> << >>, machine_name |-> << >>, live_key |-> << >>,
    now |-> 0, state |-> None, ustate |-> None, iter |-> << >>, text |-> << >>,
    edit_id |-> None, old_id |-> None, new_id |-> None,
    rotated |-> FALSE, calls |-> << >>, h0 |-> None, preIn |-> FALSE,
    preLive |-> FALSE, pre |-> << >>, preChan |-> << >>, raw |-> << >> ]

\* What a completed request remembers of the one completed before it.
NoBefore ==
  [ op |-> "", live_key |-> << >>, machine_name |-> << >>, now |-> 0,
    result |-> "", state |-> None, rotated |-> FALSE, preIn |-> FALSE,
    devices |-> << >>, raw |-> << >> ]

\* Of a request that was no check-in, or a refused one, only the outcome counts.
Summary(r) ==
  IF r.result \in {"ok", "duplicate"}
  THEN [f \in DOMAIN NoBefore |-> r[f]]
  ELSE [NoBefore EXCEPT !.op = r.op, !.result = r.result]

\* A completed request as `last` keeps it.
NoRequest ==
  [ op |-> "", live_key |-> << >>, username |-> << >>, machine_name |-> << >>,
    now |-> 0, result |-> "", state |-> None, ustate |-> None, rotated |-> FALSE,
    calls |-> << >>, h0 |-> None, prevCalls |-> << >>, prevH0 |-> None,
    seenBefore |-> None, preIn |-> FALSE, preLive |-> FALSE, text |-> << >>,
    title |-> << >>, devices |-> << >>, pre |-> << >>, preChan |-> << >>,
    raw |-> << >>, old_id |-> None, before |-> NoBefore ]

NoHist ==
  [ acc |-> 0, sends |-> 0, edits |-> 0, deletes |-> 0, failed |-> FALSE,
    prevCalls |-> << >>, prevH0 |-> None, ids |-> {} ]

Init ==
  /\ checklists = [k \in LiveKeys |-> None]
  /\ heap = << >>
  /\ channel = << >>
  /\ clock = 1
  /\ nreq = 0
  /\ pc = [w \in Workers |-> "idle"]
  /\ loc = [w \in Workers |-> IdleLoc]
  /\ hist = << >>
  /\ last = NoRequest
  /\ lastSeen = [k \in LiveKeys |-> None]

\* Is machine m in the live (stored, not expired) session of key k at time t?
InLiveSession(k, m, t) ==
  /\ checklists[k] # None
  /\ t - heap[checklists[k]].last_update < SESSION_EXPIRE_SECONDS
  /\ m \in Range(heap[checklists[k]].machines)

\* What a check-in for machine m already in the live session of key k finds:
\* the stored session dict and the chat (nothing is kept of them otherwise).
Found(k, m, t) == IF InLiveSession(k, m, t) THEN <<heap[checklists[k]]>> ELSE << >>
ChatFound(k, m, t) == IF InLiveSession(k, m, t) THEN channel ELSE << >>

HasLiveSession(k, t) ==
  /\ checklists[k] # None
  /\ t - heap[checklists[k]].last_update < SESSION_EXPIRE_SECONDS

\* The handler of thread w returns `status`; l is its locals at that point and
\* hst the reconciliation history including this step's gateway call.
Return(w, l, status, hst) ==
  /\ pc' = [pc EXCEPT ![w] = "idle"]
  /\ loc' = [loc EXCEPT ![w] = IdleLoc]
  /\ last' = [ op |-> l.op, live_key |-> l.live_key, username |-> l.username,
                 machine_name |-> l.machine_name, now |-> l.now, result |-> status,
                 state |-> l.state, ustate |-> l.ustate, rotated |-> l.rotated,
                 calls |-> l.calls, h0 |-> l.h0,
                 prevCalls |-> IF l.state # None THEN hst[l.state].prevCalls ELSE << >>,
                 prevH0 |-> IF l.state # None THEN hst[l.state].prevH0 ELSE None,
                 seenBefore |-> IF l.live_key \in LiveKeys THEN lastSeen[l.live_key] ELSE None,
                 preIn |-> l.preIn, preLive |-> l.preLive, text |-> l.text,
                 title |-> IF l.state # None THEN heap[l.state].title ELSE << >>,
                 devices |-> IF l.state # None THEN heap[l.state].machines ELSE << >>,
                 pre |-> l.pre, preChan |-> l.preChan, raw |-> l.raw,
                 old_id |-> l.old_id,
                 before |-> Summary(last) ]
  /\ hist' = IF status = "ok"
             THEN [hst EXCEPT ![l.state].acc = @ + 1,
                              ![l.state].prevCalls = l.calls,
                              ![l.state].prevH0 = l.h0]
             ELSE hst
  /\ lastSeen' = IF status \in {"ok", "duplicate"}
                 THEN [lastSeen EXCEPT ![l.live_key] = l.now]
                 ELSE lastSeen

\* The thread moves on inside its handler.
Goto(w, l, label) ==
  /\ pc' = [pc EXCEPT ![w] = label]
  /\ loc' = [loc EXCEPT ![w] = l]
  /\ UNCHANGED <<last, lastSeen>>

(***************************************************************************)
(* The clock.                                                              *)
(***************************************************************************)
\* _now(): time.time() has moved on by one of the amounts `elapsed` since it
\* was last read.  Only differences of readings are ever used (line 158), so
\* the readings made before the first session exists are all taken to be the
\* same instant.
_now(elapsed) ==
  IF heap = << >> THEN {clock} ELSE { clock + d : d \in elapsed }

\* The amounts around the expiry test, and no time at all.
JustBelow == SESSION_EXPIRE_SECONDS - 1
Elapsed == {JustBelow, SESSION_EXPIRE_SECONDS}
ElapsedOrNone == {0} \cup Elapsed

(***************************************************************************)
(* rollcall(): lines 140-178.                                              *)
(***************************************************************************)
\* RollcallBegin with line 150 testing the username alone.
RollcallBeginNoMachineCheck(w, usernames, elapsed, bound) ==
  /\ pc[w] = "idle"
  /\ nreq < bound
  /\ nreq' = nreq + 1
  /\ \E u \in usernames, m \in RawMachines, now \in _now(elapsed) :
       LET username == Strip(u)
           machine_name == Strip(m)
           l == [IdleLoc EXCEPT !.op = "rollcall", !.username = username,
                                !.machine_name = machine_name, !.raw = u]
       IN IF username = << >>
          THEN /\ Return(w, l, "error400", hist)
               /\ clock' = clock
          ELSE /\ Goto(w, [l EXCEPT !.live_key = _norm(username), !.now = now,
                                    !.preIn = InLiveSession(_norm(username), machine_name, now),
                                    !.preLive = HasLiveSession(_norm(username), now),
                                    !.pre = Found(_norm(username), machine_name, now),
                                    !.preChan = ChatFound(_norm(username), machine_name, now)],
                       "get")
               /\ clock' = now
               /\ hist' = hist
  /\ UNCHANGED <<checklists, heap, channel>>

\* Lines 142-154: the fields are trimmed and validated, live_key and now taken.
RollcallBegin(w, usernames, elapsed, bound) ==
  /\ pc[w] = "idle"
  /\ nreq < bound
  /\ nreq' = nreq + 1
  /\ \E u \in usernames, m \in RawMachines, now \in _now(elapsed) :
       LET username == Strip(u)
           machine_name == Strip(m)
           l == [IdleLoc EXCEPT !.op = "rollcall", !.username = username,
                                !.machine_name = machine_name, !.raw = u]
       IN IF username = << >> \/ machine_name = << >>
          THEN /\ Return(w, l, "error400", hist)
               /\ clock' = clock
          ELSE /\ Goto(w, [l EXCEPT !.live_key = _norm(username), !.now = now,
                                    !.preIn = InLiveSession(_norm(username), machine_name, now),
                                    !.preLive = HasLiveSession(_norm(username), now),
                                    !.pre = Found(_norm(username), machine_name, now),
                                    !.preChan = ChatFound(_norm(username), machine_name, now)],
                       "get")
               /\ clock' = now
               /\ hist' = hist
  /\ UNCHANGED <<checklists, heap, channel>>

\* Line 156: state = checklists.get(live_key)
GetState(w) ==
  /\ pc[w] = "get"
  /\ Goto(w, [loc[w] EXCEPT !.state = checklists[loc[w].live_key]], "expire")
  /\ UNCHANGED <<checklists, heap, channel, clock, nreq, hist>>

\* Expire that starts the whole store afresh when it starts a session.
ExpirePurgesAll(w) ==
  /\ pc[w] = "expire"
  /\ LET l == loc[w]
     IN IF l.state = None
           \/ l.now - heap[l.state].last_update >= SESSION_EXPIRE_SECONDS
        THEN /\ heap' = Append(heap, [title |-> l.username, machines |-> << >>,
                                      last_update |-> l.now, message_id |-> None])
             /\ hist' = Append(hist, NoHist)
             /\ checklists' = [k \in LiveKeys |->
                                 IF k = l.live_key THEN Len(heap) + 1 ELSE None]
             /\ Goto(w, [l EXCEPT !.state = Len(heap) + 1, !.rotated = TRUE], "dedupe")
        ELSE /\ Goto(w, l, "dedupe")
             /\ UNCHANGED <<heap, hist, checklists>>
  /\ UNCHANGED <<channel, clock, nreq>>

\* Expire whose fresh session takes over the message_id of the expired one.
ExpireInheritsHandle(w) ==
  /\ pc[w] = "expire"
  /\ LET l == loc[w]
     IN IF l.state = None
           \/ l.now - heap[l.state].last_update >= SESSION_EXPIRE_SECONDS
        THEN /\ heap' = Append(heap, [title |-> l.username, machines |-> << >>,
                                      last_update |-> l.now,
                                      message_id |-> IF l.state = None THEN None
                                                     ELSE heap[l.state].message_id])
             /\ hist' = Append(hist, NoHist)
             /\ checklists' = [checklists EXCEPT ![l.live_key] = Len(heap) + 1]
             /\ Goto(w, [l EXCEPT !.state = Len(heap) + 1, !.rotated = TRUE], "dedupe")
        ELSE /\ Goto(w, l, "dedupe")
             /\ UNCHANGED <<heap, hist, checklists>>
  /\ UNCHANGED <<channel, clock, nreq>>

\* Expire with the expiry test written  >  for  >= .
ExpireStrict(w) ==
  /\ pc[w] = "expire"
  /\ LET l == loc[w]
     IN IF l.state = None
           \/ l.now - heap[l.state].last_update > SESSION_EXPIRE_SECONDS
        THEN /\ heap' = Append(heap, [title |-> l.username, machines |-> << >>,
                                      last_update |-> l.now, message_id |-> None])
             /\ hist' = Append(hist, NoHist)
             /\ checklists' = [checklists EXCEPT ![l.live_key] = Len(heap) + 1]
             /\ Goto(w, [l EXCEPT !.state = Len(heap) + 1, !.rotated = TRUE], "dedupe")
        ELSE /\ Goto(w, l, "dedupe")
             /\ UNCHANGED <<heap, hist, checklists>>
  /\ UNCHANGED <<channel, clock, nreq>>

\* Lines 158-165: a fresh session replaces a missing or expired one.
Expire(w) ==
  /\ pc[w] = "expire"
  /\ LET l == loc[w]
     IN IF l.state = None
           \/ l.now - heap[l.state].last_update >= SESSION_EXPIRE_SECONDS
        THEN /\ heap' = Append(heap, [title |-> l.username, machines |-> << >>,
                                      last_update |-> l.now, message_id |-> None])
             /\ hist' = Append(hist, NoHist)
             /\ checklists' = [checklists EXCEPT ![l.live_key] = Len(heap) + 1]
             /\ Goto(w, [l EXCEPT !.state = Len(heap) + 1, !.rotated = TRUE], "dedupe")
        ELSE /\ Goto(w, l, "dedupe")
             /\ UNCHANGED <<heap, hist, checklists>>
  /\ UNCHANGED <<channel, clock, nreq>>

\* Dedupe with the membership test left out.
DedupeNoCheck(w) ==
  /\ pc[w] = "dedupe"
  /\ Goto(w, loc[w], "add")
  /\ UNCHANGED <<checklists, heap, channel, clock, nreq, hist>>

\* Line 168: if machine_name in state["machines"]
Dedupe(w) ==
  /\ pc[w] = "dedupe"
  /\ Goto(w, loc[w],
          IF loc[w].machine_name \in Range(heap[loc[w].state].machines)
          THEN "touch" ELSE "add")
  /\ UNCHANGED <<checklists, heap, channel, clock, nreq, hist>>

\* Touch followed by the reconciliation of line 176.
TouchAndUpdate(w) ==
  /\ pc[w] = "touch"
  /\ heap' = [heap EXCEPT ![loc[w].state].last_update = loc[w].now]
  /\ Goto(w, loc[w], "lookup")
  /\ UNCHANGED <<checklists, channel, clock, nreq, hist>>

\* Lines 170-171: the duplicate keeps the session alive and returns.
Touch(w) ==
  /\ pc[w] = "touch"
  /\ heap' = [heap EXCEPT ![loc[w].state].last_update = loc[w].now]
  /\ Return(w, loc[w], "duplicate", hist)
  /\ UNCHANGED <<checklists, channel, clock, nreq>>

\* set.add: nothing when present, else the element takes some place in the
\* iteration order.  The order is kept up to what its only reader,
\* sorted(..., key=str.lower) of line 45, can tell apart: the elements stand
\* by key, and the new one takes any place among those of equal key.
SetAdd(set, x) ==
  IF x \in Range(set) THEN {set}
  ELSE { SubSeq(set, 1, i) \o <<x>> \o SubSeq(set, i + 1, Len(set)) :
           i \in { j \in 0..Len(set) :
                     /\ \A n \in 1..j : ~StrLess(Lower(x), Lower(set[n]))
                     /\ \A n \in (j + 1)..Len(set) : ~StrLess(Lower(set[n]), Lower(x)) } }

\* Line 174: state["machines"].add(machine_name)
AddMachine(w) ==
  /\ pc[w] = "add"
  /\ \E ms \in SetAdd(heap[loc[w].state].machines, loc[w].machine_name) :
       heap' = [heap EXCEPT ![loc[w].state].machines = ms]
  /\ Goto(w, loc[w], "stamp")
  /\ UNCHANGED <<checklists, channel, clock, nreq, hist>>

\* Line 175: state["last_update"] = now
Stamp(w) ==
  /\ pc[w] = "stamp"
  /\ heap' = [heap EXCEPT ![loc[w].state].last_update = loc[w].now]
  /\ Goto(w, loc[w], "lookup")
  /\ UNCHANGED <<checklists, channel, clock, nreq, hist>>


(***************************************************************************)
(* The gateway: what a call does to the chat and what it returns.          *)
(***************************************************************************)
\* Each call is one step: its effect on the chat and the value the adapter
\* hands back.  A call that fails (timeout, HTTP error, ok = false) leaves the
\* chat as it was.
Shown(id) == id \in 1..Len(channel) /\ channel[id].status = "shown"

\* _telegram_send: a new message and its message_id, or None on any failure.
\* The outcomes are <<chat afterwards, returned value>>.
_telegram_send(text, owner) ==
  { <<Append(channel, [text |-> text, status |-> "shown", owner |-> owner]),
      Len(channel) + 1>>,
    <<channel, None>> }

\* _telegram_edit: True with the message's text replaced, or False; a message
\* that is no longer in the chat cannot be edited.
_telegram_edit(message_id, text) ==
  { <<channel, FALSE>> } \cup
  ( IF Shown(message_id)
    THEN { <<[channel EXCEPT ![message_id].text = text], TRUE>> }
    ELSE { } )

\* _telegram_delete: best effort, nothing returned.  A message whose delete
\* failed stays in the chat and is marked "kept".
_telegram_delete(message_id) ==
  IF Shown(message_id)
  THEN { [channel EXCEPT ![message_id].status = "deleted"],
         [channel EXCEPT ![message_id].status = "kept"] }
  ELSE { channel }

Called(w, op, id, ok) ==
  [loc[w] EXCEPT !.calls = Append(@, [op |-> op, id |-> id, ok |-> ok])]

(***************************************************************************)
(* _update_single_message(live_key): lines 120-137, called from line 176.  *)
(***************************************************************************)
\* Line 122: state = checklists[live_key]
Lookup(w) ==
  /\ pc[w] = "lookup"
  /\ Goto(w, [loc[w] EXCEPT !.ustate = checklists[loc[w].live_key]], "render")
  /\ UNCHANGED <<checklists, heap, channel, clock, nreq, hist>>

\* Line 123 (line 45): the comprehension starts iterating state["machines"].
RenderBegin(w) ==
  /\ pc[w] = "render"
  /\ Goto(w, [loc[w] EXCEPT !.iter = heap[loc[w].ustate].machines], "render2")
  /\ UNCHANGED <<checklists, heap, channel, clock, nreq, hist>>

\* Line 123 (lines 45-70): the text.  When another thread has added to the
\* set meanwhile, the iteration either had finished before or raises
\* RuntimeError, which ends the request with a 500.
RenderEnd(w) ==
  /\ pc[w] = "render2"
  /\ LET l == loc[w]
         text == _render_checklist_text(heap[l.ustate].title, l.iter)
     IN IF heap[l.ustate].machines = l.iter
        THEN /\ Goto(w, [l EXCEPT !.text = text], "peek")
             /\ hist' = hist
        ELSE \E raised \in BOOLEAN :
               IF raised
               THEN Return(w, l, "error500", hist)
               ELSE /\ Goto(w, [l EXCEPT !.text = text], "peek")
                    /\ hist' = hist
  /\ UNCHANGED <<checklists, heap, channel, clock, nreq>>

\* Peek that never takes the edit branch.
PeekAlwaysSend(w) ==
  /\ pc[w] = "peek"
  /\ Goto(w, [loc[w] EXCEPT !.h0 = heap[loc[w].ustate].message_id], "old")
  /\ UNCHANGED <<checklists, heap, channel, clock, nreq, hist>>

\* Line 126: if state.get("message_id")
Peek(w) ==
  /\ pc[w] = "peek"
  /\ LET h == heap[loc[w].ustate].message_id
     IN Goto(w, [loc[w] EXCEPT !.h0 = h], IF h # None THEN "edit_arg" ELSE "old")
  /\ UNCHANGED <<checklists, heap, channel, clock, nreq, hist>>

\* Line 127: the argument state["message_id"] is read
EditArg(w) ==
  /\ pc[w] = "edit_arg"
  /\ Goto(w, [loc[w] EXCEPT !.edit_id = heap[loc[w].ustate].message_id], "edit")
  /\ UNCHANGED <<checklists, heap, channel, clock, nreq, hist>>

\* Edit that returns after a failed edit as after a successful one.
EditNoFallback(w) ==
  /\ pc[w] = "edit"
  /\ \E out \in _telegram_edit(loc[w].edit_id, loc[w].text) :
       LET l == Called(w, "edit", loc[w].edit_id, out[2])
           hst == [hist EXCEPT ![l.ustate].edits = @ + 1,
                               ![l.ustate].failed = @ \/ ~out[2],
                               ![l.ustate].ids = @ \cup {l.edit_id}]
       IN /\ channel' = out[1]
          /\ Return(w, l, "ok", hst)
  /\ UNCHANGED <<checklists, heap, clock, nreq>>

\* Lines 127-129: _telegram_edit; success returns, failure falls through.
Edit(w) ==
  /\ pc[w] = "edit"
  /\ \E out \in _telegram_edit(loc[w].edit_id, loc[w].text) :
       LET l == Called(w, "edit", loc[w].edit_id, out[2])
           hst == [hist EXCEPT ![l.ustate].edits = @ + 1,
                               ![l.ustate].failed = @ \/ ~out[2],
                               ![l.ustate].ids = @ \cup {l.edit_id}]
       IN /\ channel' = out[1]
          /\ IF out[2]
             THEN Return(w, l, "ok", hst)
             ELSE Goto(w, l, "old") /\ hist' = hst
  /\ UNCHANGED <<checklists, heap, clock, nreq>>

\* Line 132: old_id = state.get("message_id")
OldId(w) ==
  /\ pc[w] = "old"
  /\ Goto(w, [loc[w] EXCEPT !.old_id = heap[loc[w].ustate].message_id], "send")
  /\ UNCHANGED <<checklists, heap, channel, clock, nreq, hist>>

\* Send without the test of line 134: a failed send's None is stored too.
SendNoCheck(w) ==
  /\ pc[w] = "send"
  /\ \E out \in _telegram_send(loc[w].text, loc[w].ustate) :
       LET l == [Called(w, "send", out[2], out[2] # None) EXCEPT !.new_id = out[2]]
           hst == [hist EXCEPT ![l.ustate].sends = @ + 1,
                               ![l.ustate].failed = @ \/ out[2] = None,
                               ![l.ustate].ids = @ \cup ({out[2]} \ {None})]
       IN /\ channel' = out[1]
          /\ Goto(w, l, "set") /\ hist' = hst
  /\ UNCHANGED <<checklists, heap, clock, nreq>>

\* Send whose failure is raised to the request instead of being swallowed.
SendRaises(w) ==
  /\ pc[w] = "send"
  /\ \E out \in _telegram_send(loc[w].text, loc[w].ustate) :
       LET l == [Called(w, "send", out[2], out[2] # None) EXCEPT !.new_id = out[2]]
           hst == [hist EXCEPT ![l.ustate].sends = @ + 1,
                               ![l.ustate].failed = @ \/ out[2] = None,
                               ![l.ustate].ids = @ \cup ({out[2]} \ {None})]
       IN /\ channel' = out[1]
          /\ IF out[2] # None
             THEN Goto(w, l, "set") /\ hist' = hst
             ELSE Return(w, l, "error500", hst)
  /\ UNCHANGED <<checklists, heap, clock, nreq>>

\* Lines 133-134: new_id = _telegram_send(text); if new_id
Send(w) ==
  /\ pc[w] = "send"
  /\ \E out \in _telegram_send(loc[w].text, loc[w].ustate) :
       LET l == [Called(w, "send", out[2], out[2] # None) EXCEPT !.new_id = out[2]]
           hst == [hist EXCEPT ![l.ustate].sends = @ + 1,
                               ![l.ustate].failed = @ \/ out[2] = None,
                               ![l.ustate].ids = @ \cup ({out[2]} \ {None})]
       IN /\ channel' = out[1]
          /\ IF out[2] # None
             THEN Goto(w, l, "set") /\ hist' = hst
             ELSE Return(w, l, "ok", hst)
  /\ UNCHANGED <<checklists, heap, clock, nreq>>

\* SetId with the assignment of line 135 left out.
SetIdForgets(w) ==
  /\ pc[w] = "set"
  /\ heap' = heap
  /\ IF loc[w].old_id # None /\ loc[w].old_id # loc[w].new_id
     THEN Goto(w, loc[w], "delete") /\ hist' = hist
     ELSE Return(w, loc[w], "ok", hist)
  /\ UNCHANGED <<checklists, channel, clock, nreq>>

\* SetId with the delete of line 137 not guarded by line 136.
SetIdAlwaysDeletes(w) ==
  /\ pc[w] = "set"
  /\ heap' = [heap EXCEPT ![loc[w].ustate].message_id = loc[w].new_id]
  /\ Goto(w, loc[w], "delete") /\ hist' = hist
  /\ UNCHANGED <<checklists, channel, clock, nreq>>

\* Lines 135-136: state["message_id"] = new_id; if old_id and old_id != new_id
SetId(w) ==
  /\ pc[w] = "set"
  /\ heap' = [heap EXCEPT ![loc[w].ustate].message_id = loc[w].new_id]
  /\ IF loc[w].old_id # None /\ loc[w].old_id # loc[w].new_id
     THEN Goto(w, loc[w], "delete") /\ hist' = hist
     ELSE Return(w, loc[w], "ok", hist)
  /\ UNCHANGED <<checklists, channel, clock, nreq>>

\* Line 137: _telegram_delete(old_id), then line 178.
Delete(w) ==
  /\ pc[w] = "delete"
  /\ \E ch \in _telegram_delete(loc[w].old_id) :
       /\ channel' = ch
       /\ Return(w, Called(w, "delete", loc[w].old_id,
                           ~(loc[w].old_id \in 1..Len(ch) /\ ch[loc[w].old_id].status = "kept")),
                 "ok", [hist EXCEPT ![loc[w].ustate].deletes = @ + 1])
  /\ UNCHANGED <<checklists, heap, clock, nreq>>

(***************************************************************************)
(* logout(): lines 181-201.                                                *)
(***************************************************************************)
\* Lines 183-192: the username is trimmed, validated and normalised.
LogoutBegin(w, usernames, bound) ==
  /\ pc[w] = "idle"
  /\ nreq < bound
  /\ nreq' = nreq + 1
  /\ \E u \in usernames :
       LET l == [IdleLoc EXCEPT !.op = "logout", !.username = Strip(u)]
       IN IF Strip(u) = << >>
          THEN Return(w, l, "error400", hist)
          ELSE /\ Goto(w, [l EXCEPT !.username = _norm(Strip(u)),
                                    !.text = WarningText(_norm(Strip(u)))], "lo_send")
               /\ hist' = hist
  /\ UNCHANGED <<checklists, heap, channel, clock>>

\* LogoutSend keeping the warning's message_id as the user's checklist message.
LogoutSendTracks(w) ==
  /\ pc[w] = "lo_send"
  /\ \E out \in _telegram_send(loc[w].text, None) :
       /\ channel' = out[1]
       /\ heap' = IF checklists[loc[w].username] # None /\ out[2] # None
                  THEN [heap EXCEPT ![checklists[loc[w].username]].message_id = out[2]]
                  ELSE heap
       /\ Return(w, Called(w, "send", out[2], out[2] # None), "logout_warning_sent", hist)
  /\ UNCHANGED <<checklists, clock, nreq>>

\* Lines 197-201: the warning is sent, its message_id dropped.
LogoutSend(w) ==
  /\ pc[w] = "lo_send"
  /\ \E out \in _telegram_send(loc[w].text, None) :
       /\ channel' = out[1]
       /\ Return(w, Called(w, "send", out[2], out[2] # None), "logout_warning_sent", hist)
  /\ UNCHANGED <<checklists, heap, clock, nreq>>

(***************************************************************************)
(* Specifications.                                                         *)
(***************************************************************************)
Step(w) ==
  \/ GetState(w) \/ Expire(w) \/ Dedupe(w) \/ Touch(w) \/ AddMachine(w)
  \/ Stamp(w) \/ Lookup(w) \/ RenderBegin(w) \/ RenderEnd(w) \/ Peek(w)
  \/ EditArg(w) \/ Edit(w) \/ OldId(w) \/ Send(w) \/ SetId(w) \/ Delete(w)
  \/ LogoutSend(w)

AllIdle == \A w \in Workers : pc[w] = "idle"

\* Request threads run concurrently (Flask's threaded server, no lock).
Next ==
  \E w \in Workers :
    \/ RollcallBegin(w, RawUsernames, ElapsedOrNone, MaxRace)
    \/ LogoutBegin(w, RawUsernames, MaxRace)
    \/ Step(w)

Spec == Init /\ [][Next]_vars

\* The requests of one live key, in both spellings, and a blank username.
OneKeyUsernames == { <<"A">>, <<"a", " ">>, <<" ">> }

\* Requests handled one after another by a single request thread, all for
\* one live key, some time apart.
NextSeq ==
  \E w \in {1} :
    \/ RollcallBegin(w, OneKeyUsernames, Elapsed, MaxReq)
    \/ LogoutBegin(w, OneKeyUsernames, MaxReq)
    \/ Step(w)

SpecSeq == Init /\ [][NextSeq]_vars

\* The requests of two live keys at one instant, one thread serving each key,
\* the two threads running concurrently.
UsernameOf(w) == IF w = 1 THEN <<"A">> ELSE <<"b">>

NextKeys ==
  \E w \in Workers :
    \/ RollcallBegin(w, {UsernameOf(w)}, {0}, MaxKeysReq)
    \/ LogoutBegin(w, {UsernameOf(w)}, MaxKeysReq)
    \/ Step(w)

SpecKeys == Init /\ [][NextKeys]_vars

(***************************************************************************)
(* The renderer by itself: two machines sets of one title are built by     *)
(* set.add in any order of arrival and both are then rendered.             *)
(***************************************************************************)
Titles == { Strip(u) : u \in RawUsernames } \ { << >> }
Devices == { Strip(m) : m \in RawMachines } \ { << >> }

InitRender ==
  /\ \E t \in Titles :
       heap = [s \in 1..2 |-> [title |-> t, machines |-> << >>,
                               last_update |-> 1, message_id |-> None]]
  /\ hist = [s \in 1..2 |-> NoHist]
  /\ checklists = [k \in LiveKeys |-> None]
  /\ channel = << >>
  /\ clock = 1
  /\ nreq = 0
  /\ pc = [w \in Workers |-> "idle"]
  /\ loc = [w \in Workers |-> IdleLoc]
  /\ last = NoRequest
  /\ lastSeen = [k \in LiveKeys |-> None]

\* Line 174 on the s-th set.
RenderAdd(s, m) ==
  /\ channel = << >>
  /\ \E ms \in SetAdd(heap[s].machines, m) :
       heap' = [heap EXCEPT ![s].machines = ms]
  /\ UNCHANGED <<checklists, channel, clock, nreq, pc, loc, hist, last, lastSeen>>

\* Line 123 on both: text = _render_checklist_text(title, machines)
RenderApply ==
  /\ channel = << >>
  /\ channel' = [s \in 1..2 |->
                   [text |-> _render_checklist_text(heap[s].title, heap[s].machines),
                    status |-> "shown", owner |-> s]]
  /\ UNCHANGED <<checklists, heap, clock, nreq, pc, loc, hist, last, lastSeen>>

NextRender ==
  \/ \E s \in 1..2, m \in Devices : RenderAdd(s, m)
  \/ RenderApply

SpecRender == InitRender /\ [][NextRender]_vars


(***************************************************************************)
(* Properties.  `last` is the request that completed most recently and     *)
(* last.before what is remembered of the one that completed before it.     *)
(***************************************************************************)
IsCheckIn(r) == r.op = "rollcall" /\ r.result \in {"ok", "duplicate", "error500"}

\* How often x occurs in the sequence s.
Count(x, s) == Cardinality({i \in 1..Len(s) : s[i] = x})

\* The session dict stored for key k.
Stored(k) == heap[checklists[k]]

\* Two check-ins completed one after the other for the same key and machine,
\* less than the TTL apart, the first finding the machine not yet checked in.
SameTwice ==
  /\ IsCheckIn(last) /\ IsCheckIn(last.before)
  /\ last.before.live_key = last.live_key
  /\ last.before.machine_name = last.machine_name
  /\ ~last.before.preIn
  /\ last.now - last.before.now < SESSION_EXPIRE_SECONDS

\* C1 (dedup idempotence): of two check-ins in succession for the same
\* username and machine, less than the TTL apart and starting with the machine
\* not in the live session, the first is accepted and the second is a
\* duplicate; the second leaves devices as the first left it, with the
\* machine in it exactly once.
C1_DedupIdempotence ==
  SameTwice =>
    /\ last.before.result = "ok"
    /\ last.result = "duplicate"
    /\ last.devices = last.before.devices
    /\ Count(last.machine_name, last.devices) = 1
    /\ AllIdle => Count(last.machine_name, Stored(last.live_key).machines) = 1

\* The pair has happened, in a session that already held another device, the
\* second call arriving just before the session would have expired.
C1_Witness ==
  /\ SameTwice /\ AllIdle
  /\ last.result = "duplicate"
  /\ Len(last.devices) = 2
  /\ last.now - last.before.now = JustBelow

\* C2 (expiry rotation): a check-in starts a fresh session exactly when its
\* key has seen no check-in yet or the latest check-in of any outcome lies a
\* TTL or more back; the fresh session has this call's username as title, no
\* handle (its reconciliation opens with a send) and, when the call returns,
\* exactly this call's machine as devices.
C2_ExpiryRotation ==
  (IsCheckIn(last) /\ last.result # "error500") =>
    /\ last.rotated <=>
         \/ last.seenBefore = None
         \/ last.now - last.seenBefore >= SESSION_EXPIRE_SECONDS
    /\ last.rotated =>
         /\ last.result = "ok"
         /\ last.title = last.username
         /\ last.devices = <<last.machine_name>>
         /\ last.h0 = None
         /\ last.calls[1].op = "send"
         /\ last.state \notin {last.before.state}

\* A rotation exactly one TTL after a duplicate, replacing a session under
\* another title that held another device and a message.
C2_Witness ==
  /\ IsCheckIn(last) /\ last.rotated
  /\ last.now - last.seenBefore = SESSION_EXPIRE_SECONDS
  /\ last.before.result = "duplicate"
  /\ last.machine_name \notin Range(last.before.devices)
  /\ heap[last.before.state].message_id # None
  /\ heap[last.before.state].title # last.title

\* C3 (one acceptance per device under concurrency): once a check-in for a
\* machine has been accepted in a session, a check-in for the same machine
\* completing next on the same session is a duplicate.
C3_OneAcceptance ==
  ( /\ IsCheckIn(last) /\ IsCheckIn(last.before)
    /\ last.before.state = last.state
    /\ last.before.machine_name = last.machine_name
    /\ last.before.result = "ok" )
  => last.result = "duplicate"

\* C4 (one fresh session under concurrency): of two check-ins for one key
\* made at the same instant at most one creates a session, and when both
\* are accepted the stored session holds both machines.
C4_OneFreshSession ==
  ( /\ AllIdle
    /\ IsCheckIn(last) /\ IsCheckIn(last.before)
    /\ last.before.live_key = last.live_key
    /\ last.before.now = last.now
    /\ last.result = "ok" /\ last.before.result = "ok" )
  => /\ ~(last.rotated /\ last.before.rotated)
     /\ {last.machine_name, last.before.machine_name}
          \subseteq Range(Stored(last.live_key).machines)

\* The checklist messages of session s still in the chat (a message whose
\* delete failed is set aside: deletes are assumed to succeed).
ShownFor(s) == {i \in 1..Len(channel) : channel[i].owner = s /\ channel[i].status = "shown"}

InFlight(k) == \E w \in Workers : pc[w] # "idle" /\ loc[w].live_key = k

\* C5 (single message per session): with no check-in for the key in flight,
\* at most one message of the stored session is in the chat, and it is the
\* one message_id refers to.
C5_SingleMessage ==
  \A k \in LiveKeys :
    (checklists[k] # None /\ ~InFlight(k)) =>
      /\ Cardinality(ShownFor(checklists[k])) <= 1
      /\ ShownFor(checklists[k]) \subseteq {Stored(k).message_id}


\* C6 (reconciliation monotonicity): a session that has accepted N >= 1
\* check-ins one after another, every gateway call having succeeded, has
\* seen one send, N-1 edits and no delete, and every edit went to the handle
\* that send returned, which is still the session's handle.
C6_ReconciliationMonotonicity ==
  \A s \in 1..Len(heap) :
    (AllIdle /\ hist[s].acc >= 1 /\ ~hist[s].failed) =>
      /\ hist[s].sends = 1
      /\ hist[s].edits = hist[s].acc - 1
      /\ hist[s].deletes = 0
      /\ hist[s].ids = {heap[s].message_id}

\* Three accepted check-ins in one session, all calls successful.
C6_Witness ==
  \E s \in 1..Len(heap) :
    AllIdle /\ hist[s].acc = 3 /\ ~hist[s].failed /\ hist[s].edits = 2

\* The calls c include a failed edit / a failed send / any failed call.
EditFailed(c) == \E i \in 1..Len(c) : c[i].op = "edit" /\ ~c[i].ok
SendFailed(c) == \E i \in 1..Len(c) : c[i].op = "send" /\ ~c[i].ok
SendOk(c) == \E i \in 1..Len(c) : c[i].op = "send" /\ c[i].ok
AllOk(c) == \A i \in 1..Len(c) : c[i].ok

\* An accepted check-in on the session whose previous reconciliation is
\* recorded in last.prevCalls.
Accepted == last.op = "rollcall" /\ last.result = "ok"

\* C7 as stated (self-healing on edit failure): after a reconciliation in
\* which an edit failed, the next check-in's reconciliation for the session
\* performs a send, whose handle becomes the session's, and a delete of the
\* old handle.
C7_NextCheckInSends ==
  (AllIdle /\ Accepted /\ ~last.rotated /\ EditFailed(last.prevCalls)) =>
    /\ \E i \in 1..Len(last.calls) :
         /\ last.calls[i].op = "send" /\ last.calls[i].ok
         /\ Stored(last.live_key).message_id = last.calls[i].id
    /\ \E i \in 1..Len(last.calls) :
         last.calls[i].op = "delete" /\ last.calls[i].id = last.h0

\* C7 as the code has it: the reconciliation in which the edit fails performs
\* the send itself, right after the failed edit; when that send succeeds its
\* handle becomes the session's and a delete of the old handle follows; the
\* next check-in's reconciliation then opens with an edit of the handle the
\* session holds.
C7_SameReconciliationSends ==
  /\ (AllIdle /\ Accepted /\ EditFailed(last.calls)) =>
       /\ last.calls[1] = [op |-> "edit", id |-> last.h0, ok |-> FALSE]
       /\ Len(last.calls) >= 2
       /\ last.calls[2].op = "send"
       /\ last.calls[2].ok =>
            /\ Stored(last.live_key).message_id = last.calls[2].id
            /\ Len(last.calls) = 3
            /\ last.calls[3].op = "delete" /\ last.calls[3].id = last.h0
       /\ ~last.calls[2].ok => Len(last.calls) = 2
  /\ (Accepted /\ EditFailed(last.prevCalls) /\ ~last.rotated) =>
       /\ last.h0 # None
       /\ last.calls[1] = [op |-> "edit", id |-> last.h0, ok |-> last.calls[1].ok]

\* An edit fails, the send replaces the message and the old one is deleted;
\* and a check-in after such a reconciliation that only edits.
C7_Witness ==
  /\ AllIdle /\ Accepted
  /\ EditFailed(last.prevCalls) /\ SendOk(last.prevCalls)
  /\ Len(last.calls) = 1 /\ last.calls[1].op = "edit" /\ last.calls[1].ok

\* The last reconciliation ended with a failed send.
EndedInFailedSend(c) == c # << >> /\ c[Len(c)].op = "send" /\ ~c[Len(c)].ok

\* C8 (send failure leaves the handle unchanged): a reconciliation whose send
\* fails leaves message_id as it found it and issues no delete; the next
\* accepted check-in of the session starts over on that same handle: an edit
\* of it when there is one, else a send.
C8_SendFailureKeepsHandle ==
  /\ (AllIdle /\ Accepted /\ SendFailed(last.calls)) =>
       /\ Stored(last.live_key).message_id = last.h0
       /\ \A i \in 1..Len(last.calls) : last.calls[i].op # "delete"
       /\ EndedInFailedSend(last.calls)
  /\ (Accepted /\ ~last.rotated /\ EndedInFailedSend(last.prevCalls)) =>
       /\ last.h0 = last.prevH0
       /\ last.calls[1].op = (IF last.h0 # None THEN "edit" ELSE "send")
       /\ last.h0 # None => last.calls[1].id = last.h0

\* A failed edit and a failed send, then the next accepted check-in editing
\* the retained handle; again with a failing send.
C8_Witness ==
  /\ AllIdle /\ Accepted /\ ~last.rotated
  /\ EditFailed(last.prevCalls) /\ EndedInFailedSend(last.prevCalls)
  /\ last.h0 # None /\ last.h0 = last.prevH0
  /\ EditFailed(last.calls) /\ EndedInFailedSend(last.calls)

\* C9 (gateway failures never reach the caller and never undo state): no
\* request ends in a server error, a request is refused only for an empty
\* field, and a check-in for a machine not yet in the live session returns
\* accepted with the machine in devices and last_update set to its time,
\* whatever the gateway calls returned.
C9_GatewayFailuresContained ==
  /\ last.result # "error500"
  /\ last.result = "error400" =>
       \/ last.username = << >>
       \/ last.op = "rollcall" /\ last.machine_name = << >>
  /\ (last.op = "logout" /\ last.username # << >>) => last.result = "logout_warning_sent"
  /\ (AllIdle /\ last.op = "rollcall" /\ last.result # "error400" /\ ~last.preIn) =>
       /\ last.result = "ok"
       /\ last.machine_name \in Range(Stored(last.live_key).machines)
       /\ Stored(last.live_key).last_update = last.now

\* An accepted check-in whose edit and send both failed.
C9_Witness ==
  /\ AllIdle /\ Accepted /\ ~last.preIn
  /\ EditFailed(last.calls) /\ SendFailed(last.calls)
  /\ last.machine_name \in Range(Stored(last.live_key).machines)

\* The chat shows the session of key k as it is: the message its handle
\* refers to is there with the rendering of its title and devices.
DisplayCurrent(k) ==
  /\ Shown(Stored(k).message_id)
  /\ channel[Stored(k).message_id].text
       = _render_checklist_text(Stored(k).title, Stored(k).machines)

\* The display of the session this check-in found had diverged: its latest
\* reconciliation ended in a failed send.
FoundDiverged == ~last.rotated /\ EndedInFailedSend(last.prevCalls)

\* C10 as stated (reconvergence): after a divergence the next check-in,
\* accepted or duplicate, with the gateway succeeding, leaves the chat
\* showing the rendering of the session's title and devices.
C10_NextCheckInReconverges ==
  ( /\ AllIdle /\ IsCheckIn(last) /\ last.result \in {"ok", "duplicate"}
    /\ FoundDiverged /\ AllOk(last.calls) )
  => DisplayCurrent(last.live_key)

\* C10 as the code has it: the next accepted check-in reconverges.
C10_NextAcceptedReconverges ==
  (AllIdle /\ Accepted /\ FoundDiverged /\ AllOk(last.calls))
  => DisplayCurrent(last.live_key)

\* A stale message (failed edit, failed send) brought up to date by the next
\* accepted check-in's edit.
C10_Witness ==
  /\ AllIdle /\ Accepted /\ FoundDiverged /\ AllOk(last.calls)
  /\ EditFailed(last.prevCalls)
  /\ last.calls # << >> /\ last.calls[1].op = "edit"
  /\ Len(Stored(last.live_key).machines) = 3

\* A request is received and answered in one step / received and taken up.
Refused == nreq' # nreq /\ pc' = pc
TakenUp(w) == nreq' # nreq /\ pc[w] = "idle" /\ pc'[w] # "idle"

\* C11 (invalid input is rejected without side effects): a check-in whose
\* username or machine is empty after trimming, and a logout whose username
\* is, is refused with a client error, and no other request is; the refusal
\* leaves the store, every session and the chat as they were and makes no
\* gateway call.
C11_InvalidInputRefused ==
  [][ /\ \A w \in Workers : TakenUp(w) =>
            /\ loc'[w].username # << >>
            /\ loc'[w].op = "rollcall" => loc'[w].machine_name # << >>
      /\ Refused =>
            /\ last'.result = "error400"
            /\ \/ last'.username = << >>
               \/ last'.op = "rollcall" /\ last'.machine_name = << >>
            /\ last'.calls = << >>
            /\ UNCHANGED <<checklists, heap, channel, clock, hist, lastSeen>>
    ]_vars

\* A check-in with an empty machine was refused while a session with a
\* message was stored for its key.
C11_Witness ==
  /\ AllIdle
  /\ last.op = "rollcall" /\ last.result = "error400"
  /\ last.username # << >> /\ last.machine_name = << >>
  /\ checklists[_norm(last.username)] # None
  /\ Stored(_norm(last.username)).message_id # None

\* C12 (a duplicate check-in only keeps the session alive): a check-in for a
\* machine already in the live session of its key returns duplicate, and no
\* other check-in does; when it has returned the store refers to the same
\* session dict, which differs from what the call found in last_update alone
\* (now this call's time), the chat is as the call found it, and the call
\* rendered nothing and made no gateway call.
C12_DuplicateOnlyTouches ==
  /\ (last.op = "rollcall" /\ last.result = "duplicate") => last.preIn
  /\ (AllIdle /\ last.op = "rollcall" /\ last.preIn) =>
       /\ last.result = "duplicate"
       /\ ~last.rotated
       /\ checklists[last.live_key] = last.state
       /\ Stored(last.live_key) = [last.pre[1] EXCEPT !.last_update = last.now]
       /\ channel = last.preChan
       /\ last.calls = << >>
       /\ last.text = << >>

\* A duplicate under the other spelling of the username, in a session that
\* holds two devices and a message, just before the session would expire.
C12_Witness ==
  /\ AllIdle /\ last.op = "rollcall" /\ last.preIn /\ last.result = "duplicate"
  /\ last.username # last.pre[1].title
  /\ Len(last.pre[1].machines) = 2
  /\ last.pre[1].message_id # None
  /\ last.now - last.pre[1].last_update = JustBelow

\* The step replaces the session stored for key k by a fresh one, and the
\* stored session was expired at the time of the replacing call.
RotatedByExpiry(k) ==
  \E w \in Workers :
    /\ pc[w] = "expire" /\ pc'[w] = "dedupe" /\ loc[w].live_key = k
    /\ checklists'[k] # checklists[k]
    /\ loc[w].now - Stored(k).last_update >= SESSION_EXPIRE_SECONDS

\* C13 (devices only grows within a session): no step, of whichever of the
\* concurrent check-ins, takes a device away from the session stored for a
\* key, unless the step rotates a session that had expired.
C13_DevicesNeverShrink ==
  [][ \A k \in LiveKeys :
        checklists[k] # None =>
          /\ checklists'[k] # None
          /\ \/ Range(Stored(k).machines) \subseteq Range(heap'[checklists'[k]].machines)
             \/ RotatedByExpiry(k)
    ]_vars

\* The usernames u and v as sent differ at most in letter case and in
\* surrounding whitespace.
SameName(u, v) == Lower(Strip(u)) = Lower(Strip(v))

\* Two check-ins completed one after the other, less than the TTL apart.
CloseCheckIns ==
  /\ IsCheckIn(last) /\ last.result # "error500"
  /\ IsCheckIn(last.before) /\ last.before.result # "error500"
  /\ last.now - last.before.now < SESSION_EXPIRE_SECONDS

\* C14 (live-key normalisation, title kept): two check-ins less than the TTL
\* apart whose usernames differ only in letter case or surrounding whitespace
\* land in the same session, so that for the same machine the second is a
\* duplicate; a session's title is the trimmed username of the check-in that
\* created it and is never changed afterwards, so the title stored for a key
\* changes only when the session is replaced.
C14_SameKeyTitleKept ==
  /\ [](( CloseCheckIns /\ SameName(last.raw, last.before.raw) ) =>
          /\ last.live_key = last.before.live_key
          /\ last.state = last.before.state
          /\ last.before.machine_name = last.machine_name => last.result = "duplicate")
  /\ [][ /\ \A s \in 1..Len(heap) :
              s \in 1..Len(heap') /\ heap'[s].title = heap[s].title
         /\ \A s \in 1..Len(heap') \ 1..Len(heap) :
              \E w \in Workers :
                /\ pc[w] = "expire" /\ loc'[w].state = s
                /\ heap'[s].title = Strip(loc[w].raw)
         /\ \A k \in LiveKeys :
              (checklists[k] # None /\ checklists'[k] = checklists[k])
                => heap'[checklists'[k]].title = Stored(k).title
       ]_vars

\* "A" creates the session; "a " then checks the same machine in again and
\* is a duplicate; the title is still "A".
C14_Witness ==
  /\ AllIdle /\ CloseCheckIns
  /\ last.before.raw = <<"A">> /\ last.raw = <<"a", " ">>
  /\ last.before.rotated
  /\ last.before.machine_name = last.machine_name
  /\ last.result = "duplicate"
  /\ Stored(last.live_key).title = <<"A">>

\* The step is one of a logout handled by thread w.
LogoutStep(w) ==
  \/ pc[w] = "idle" /\ pc'[w] = "lo_send"
  \/ pc[w] = "lo_send" /\ pc'[w] = "idle"
  \/ Refused /\ last'.op = "logout"

\* C15 (logout notification is independent of sessions): a logout with a
\* non-empty username makes exactly one gateway call, a send, and returns
\* logout_warning_sent whether that send succeeded or not; the message_id of
\* the send is no session's message_id; and no step of a logout changes the
\* store, a session dict or a message already in the chat.
C15_LogoutIndependent ==
  /\ []((last.op = "logout" /\ last.username # << >>) =>
          /\ last.result = "logout_warning_sent"
          /\ Len(last.calls) = 1
          /\ last.calls[1].op = "send"
          /\ (AllIdle /\ last.calls[1].ok) =>
               \A s \in 1..Len(heap) : heap[s].message_id # last.calls[1].id)
  /\ [][ \A w \in Workers : LogoutStep(w) =>
            /\ UNCHANGED <<checklists, heap, hist, lastSeen>>
            /\ Len(channel') \in {Len(channel), Len(channel) + 1}
            /\ SubSeq(channel', 1, Len(channel)) = channel
       ]_vars

\* A logout whose send succeeded, for a user whose session has a message of
\* its own and a device.
C15_Witness ==
  /\ AllIdle /\ last.op = "logout" /\ last.result = "logout_warning_sent"
  /\ last.calls[1].ok
  /\ checklists[last.username] # None
  /\ Stored(last.username).message_id # None
  /\ Stored(last.username).machines # << >>
  /\ channel[last.calls[1].id].text = WarningText(last.username)

\* The names in d stand in case-insensitive order.
InLowerOrder(d) ==
  \A i, j \in 1..Len(d) : i < j => ~StrLess(Lower(d[j]), Lower(d[i]))

\* C16 (render ordering and determinism): the devices are displayed in
\* case-insensitive order, and two renders under one title of the same set
\* of devices give the same text, in whatever order the devices arrived,
\* also when two names differ only in letter case.
C16_RenderDeterministic ==
  channel # << >> =>
    /\ \A s \in 1..2 : InLowerOrder(SortedByLower(heap[s].machines))
    /\ (/\ heap[1].title = heap[2].title
        /\ Range(heap[1].machines) = Range(heap[2].machines))
       => channel[1].text = channel[2].text

\* The places of the calls of kind op in the calls c.
At(op, c) == {i \in 1..Len(c) : c[i].op = op}

\* The calls c of one reconciliation keep to the protocol of edit, send and
\* delete; h0 is the handle it found at line 126 and old the prior handle it
\* noted at line 132.
Protocol(c, h0, old) ==
  /\ \A op \in {"edit", "send", "delete"} : Cardinality(At(op, c)) <= 1
  /\ \A e \in At("edit", c), n \in At("send", c) : e < n
  /\ \A n \in At("send", c), d \in At("delete", c) : n < d
  /\ \A e \in At("edit", c) :
       /\ h0 # None /\ c[e].id # None
       /\ c[e].ok => Len(c) = 1
  /\ \A n \in At("send", c) :
       \/ h0 = None
       \/ \E e \in At("edit", c) : ~c[e].ok
  /\ \A d \in At("delete", c) :
       /\ \E n \in At("send", c) : c[n].ok /\ c[n].id # old
       /\ old # None /\ c[d].id = old

\* C17 (gateway call protocol of one reconciliation): a check-in makes at
\* most one edit, one send and one delete, in that order; the edit only on a
\* handle that is present, the send only when there was no handle or the
\* edit failed, the delete only after a successful send, of the prior handle
\* and only when there was one and it differs from the new; a successful
\* edit is the last call; and with no request in flight nothing calls the
\* gateway.
C17_CallProtocol ==
  /\ [](/\ last.op = "rollcall" => Protocol(last.calls, last.h0, last.old_id)
        /\ \A w \in Workers :
             loc[w].op = "rollcall" => Protocol(loc[w].calls, loc[w].h0, loc[w].old_id))
  /\ [][AllIdle => channel' = channel]_vars

\* A reconciliation of all three calls: the edit fails, the send succeeds,
\* the old message is deleted.
C17_Witness ==
  /\ AllIdle /\ Accepted
  /\ Len(last.calls) = 3
  /\ last.calls[1].op = "edit" /\ ~last.calls[1].ok
  /\ last.calls[2].op = "send" /\ last.calls[2].ok
  /\ last.calls[3].op = "delete" /\ last.calls[3].id = last.h0

\* C18 (display matches state after concurrent check-ins): when two accepted
\* check-ins of different machines in the same session have both returned,
\* however their steps interleaved, every gateway call for the session
\* having succeeded, the message the session's message_id refers to shows the
\* rendering of the session's title and devices.
C18_DisplayAfterConcurrentCheckIns ==
  ( /\ AllIdle /\ Accepted
    /\ last.before.op = "rollcall" /\ last.before.result = "ok"
    /\ last.before.state = last.state
    /\ last.before.machine_name # last.machine_name
    /\ checklists[last.live_key] = last.state
    /\ ~hist[last.state].failed )
  => DisplayCurrent(last.live_key)

\* The live key of the check-in of which thread w takes a step.
ActingKey(w) == IF pc[w] = "idle" THEN loc'[w].live_key ELSE loc[w].live_key

\* Thread w takes a step of a check-in.
CheckInStep(w) ==
  /\ pc'[w] # pc[w]
  /\ (IF pc[w] = "idle" THEN loc'[w].op ELSE loc[w].op) = "rollcall"

\* C19 (independence of live keys): a step of a check-in for key A leaves,
\* for every other key B, the store's entry of B, every session dict created
\* under B (title, machines, last_update, message_id) and every message of
\* such a session as they were; and while a check-in of another key is at a
\* gateway call, a check-in can make its own gateway call.
C19_KeysIndependent ==
  [][ /\ \A w \in Workers : CheckInStep(w) =>
           \A k \in LiveKeys \ {ActingKey(w)} :
             /\ checklists'[k] = checklists[k]
             /\ \A s \in 1..Len(heap) :
                  _norm(heap[s].title) = k =>
                    /\ heap'[s] = heap[s]
                    /\ \A i \in 1..Len(channel) :
                         channel[i].owner = s => channel'[i] = channel[i]
      /\ \A v, w \in Workers :
           ( /\ pc[w] \in {"edit", "send", "delete"}
             /\ pc[v] \in {"edit", "send", "delete"}
             /\ loc[v].live_key # loc[w].live_key )
           => ENABLED Step(w)
    ]_vars

\* Both keys have a session with a device, one of them with a message, and
\* a check-in of each key is in flight, the one at its send and the other at
\* its edit.
C19_Witness ==
  /\ \A k \in {_norm(UsernameOf(w)) : w \in Workers} :
       checklists[k] # None /\ Stored(k).machines # << >>
  /\ \E v, w \in Workers :
       /\ loc[v].live_key # loc[w].live_key
       /\ pc[v] = "send" /\ pc[w] = "edit"
       /\ Stored(loc[w].live_key).message_id # None

\* Thread w is storing the id its successful send returned in session s.
StoresSentId(w, s) ==
  /\ pc[w] = "set" /\ loc[w].ustate = s
  /\ loc[w].new_id # None
  /\ heap'[s].message_id = loc[w].new_id
  /\ loc[w].calls # << >>
  /\ loc[w].calls[Len(loc[w].calls)] = [op |-> "send", id |-> loc[w].new_id, ok |-> TRUE]

\* C20 (rotation does not inherit the old message): a session dict is
\* created with no message_id, and the check-in that rotates reconciles with
\* a send and nothing else, so it neither edits nor deletes the expired
\* session's message; a session's message_id, once set, is never absent
\* again and changes only by a step storing the id a successful send
\* returned.
C20_RotationStartsFresh ==
  /\ []((last.op = "rollcall" /\ last.rotated /\ last.result = "ok") =>
          /\ last.h0 = None
          /\ Len(last.calls) = 1
          /\ last.calls[1].op = "send")
  /\ [][ /\ \A s \in 1..Len(heap') \ 1..Len(heap) : heap'[s].message_id = None
         /\ \A s \in 1..Len(heap) :
              /\ heap[s].message_id # None => heap'[s].message_id # None
              /\ heap'[s].message_id # heap[s].message_id =>
                   \E w \in Workers : StoresSentId(w, s)
       ]_vars

\* A rotation over a session that had a message: the new session got a
\* message of its own, the old message is still in the chat as it was.
C20_Witness ==
  /\ AllIdle /\ Accepted /\ last.rotated
  /\ last.before.state # None
  /\ heap[last.before.state].message_id # None
  /\ Shown(heap[last.before.state].message_id)
  /\ last.calls[1].ok
  /\ Stored(last.live_key).message_id = last.calls[1].id
  /\ Stored(last.live_key).message_id # heap[last.before.state].message_id

====
